---------------------------- MODULE Spec2Model ----------------------------
(***************************************************************************)
(* Model of src/proxy_server.js: requestHandler, a path-addressed forward  *)
(* HTTP/HTTPS proxy running on Node's http/https/url modules.              *)
(*                                                                         *)
(* One inbound request occupies one slot r.  Its state is the four Node    *)
(* objects the handler touches (req, res, proxyReq, proxyRes), the bytes   *)
(* that reached the client (wire) and a process-wide flag (crashed) that   *)
(* an exception escaping a handler or callback sets.                       *)
(*                                                                         *)
(* What the handler leaves to Node, as Node does it:                       *)
(*  - url.parse lower-cases the protocol and throws URIError when the auth *)
(*    part of the URL cannot be percent-decoded;                           *)
(*  - an exception thrown by a 'request' listener or an event callback is  *)
(*    uncaught and stops the process;                                      *)
(*  - readable.pipe(dest, { end: true }) ends dest on the source's 'end'   *)
(*    only; it unpipes (and pauses the source) when dest closes, and       *)
(*    closes neither stream when the other one fails or closes;            *)
(*  - a ClientRequest emits 'error' as its socket is destroyed, so no      *)
(*    'response' follows an 'error'; a response cut short emits no 'end';  *)
(*  - res.writeHead throws once the headers are sent.                      *)
(***************************************************************************)
EXTENDS Naturals, Sequences, FiniteSets, TLC

\* ------------------------------------------------------------------ bounds
NumRequests == 2      \* request slots of the concurrent specification
MaxBody     == 2      \* chunks in a target's response body
MaxReqBody  == 1      \* chunks in an inbound request body

Requests == 1..NumRequests

\* ------------------------------------------------------- strings as chars
\* A URL is the sequence of its characters, so that slice(1) and url.parse
\* are computed the way the code computes them.  A field url.parse leaves
\* null, or sets to '', is the empty sequence: the handler only tests such
\* fields for truthiness (parsedUrl.port || ...), and protocol is never ''.
Null == << >>

Lower(c) ==
    CASE c = "H" -> "h" [] c = "T" -> "t" [] c = "P" -> "p" [] c = "S" -> "s"
      [] c = "F" -> "f" [] OTHER -> c

LowerAll(s) == [i \in 1..Len(s) |-> Lower(s[i])]

\* the characters of /[a-z0-9.+-]/i that the sample URLs use
SchemeChars == {"h", "t", "p", "s", "f", "i", "l", "e", "a", "x", "u",
                "H", "T", "P", "S", "F", "0", "1", "4", "8", "+", "-", "."}
HexChars    == {"0", "1", "4", "8", "a", "e", "f"}
Digits      == {"0", "1", "4", "8"}

\* index of the first element of s at or after i that lies in set, else 0
RECURSIVE FirstIn(_, _, _)
FirstIn(s, i, set) ==
    IF i > Len(s) THEN 0
    ELSE IF s[i] \in set THEN i
    ELSE FirstIn(s, i + 1, set)

\* index of the last element of s at or before i that equals c, else 0
RECURSIVE LastOf(_, _, _)
LastOf(s, i, c) ==
    IF i < 1 THEN 0
    ELSE IF s[i] = c THEN i
    ELSE LastOf(s, i - 1, c)

\* a handler that forgets the slice and parses the path as it came
NoSlice(s) == s

\* req.url.slice(1): everything after the first character
Slice1(s) == IF Len(s) <= 1 THEN << >> ELSE SubSeq(s, 2, Len(s))

\* length of the match of protocolPattern /^[a-z0-9.+-]+:/i, 0 when none
NotSchemeChars(s) == {s[i] : i \in 1..Len(s)} \ SchemeChars

ProtoLen(s) ==
    IF FirstIn(s, 1, NotSchemeChars(s)) > 1 /\ s[FirstIn(s, 1, NotSchemeChars(s))] = ":"
    THEN FirstIn(s, 1, NotSchemeChars(s)) ELSE 0

\* decodeURIComponent throws URIError on a "%" that two hex digits do not follow
MalformedEscape(s) ==
    \E i \in 1..Len(s) :
        /\ s[i] = "%"
        /\ ~(i + 2 <= Len(s) /\ s[i + 1] \in HexChars /\ s[i + 2] \in HexChars)

slashedProtocol == {<<"h","t","t","p",":">>, <<"h","t","t","p","s",":">>,
                    <<"f","t","p",":">>, <<"f","i","l","e",":">>}

\* url.parse(targetUrl), by its stages.  The protocol is the lower-cased
\* match of protocolPattern.
ProtocolOf(s) ==
    IF ProtoLen(s) = 0 THEN Null ELSE LowerAll(SubSeq(s, 1, ProtoLen(s)))

AfterProtocol(s) == SubSeq(s, ProtoLen(s) + 1, Len(s))

\* "//" after the protocol; without a protocol it denotes a host only when
\* user@host follows (hostPattern)
HasSlashes(protocol, rest0) ==
    /\ Len(rest0) >= 2 /\ rest0[1] = "/" /\ rest0[2] = "/"
    /\ (protocol # Null \/ \E i \in 1..Len(rest0) : rest0[i] = "@")

\* whether an authority (auth, host, port) is parsed at all
HasHost(protocol, rest0) ==
    HasSlashes(protocol, rest0) \/ (protocol # Null /\ protocol \notin slashedProtocol)

AfterSlashes(protocol, rest0) ==
    IF HasSlashes(protocol, rest0) THEN SubSeq(rest0, 3, Len(rest0)) ELSE rest0

\* one past the authority: the first of "/", "?", "#"
HostEnd(rest) ==
    IF FirstIn(rest, 1, {"/", "?", "#"}) = 0 THEN Len(rest) + 1
    ELSE FirstIn(rest, 1, {"/", "?", "#"})

\* the last "@" of the authority, 0 when none
AtSign(rest) == LastOf(rest, HostEnd(rest) - 1, "@")

\* the undecoded auth part, Null when there is none
AuthOf(hasHost, rest) ==
    IF hasHost /\ AtSign(rest) > 0 THEN SubSeq(rest, 1, AtSign(rest) - 1) ELSE Null

HostPort(rest) == SubSeq(rest, AtSign(rest) + 1, HostEnd(rest) - 1)

\* the ":" that starts a numeric port, 0 when none
PortColon(hp) ==
    IF /\ LastOf(hp, Len(hp), ":") > 0
       /\ LastOf(hp, Len(hp), ":") < Len(hp)
       /\ \A i \in 1..Len(hp) : i > LastOf(hp, Len(hp), ":") => hp[i] \in Digits
    THEN LastOf(hp, Len(hp), ":") ELSE 0

HostnameOf(hp) ==
    LowerAll(IF PortColon(hp) > 0 THEN SubSeq(hp, 1, PortColon(hp) - 1) ELSE hp)

PortOf(hp) ==
    IF PortColon(hp) > 0 THEN SubSeq(hp, PortColon(hp) + 1, Len(hp)) ELSE Null

\* path + query: what follows the authority, up to "#"; "/" for a slashed
\* protocol with a host and no path
PathOf(protocol, hostname, tail) ==
    IF tail # << >> /\ tail[1] # "#"
    THEN (IF FirstIn(tail, 1, {"#"}) = 0 THEN tail
          ELSE SubSeq(tail, 1, FirstIn(tail, 1, {"#"}) - 1))
    ELSE IF protocol \in slashedProtocol /\ hostname # Null THEN <<"/">> ELSE Null

ParseAuthority(protocol, hasHost, rest) ==
    [\* URIError: the auth part is present but cannot be decoded
     threw    |-> MalformedEscape(AuthOf(hasHost, rest)),
     protocol |-> protocol,
     hostname |-> IF hasHost THEN HostnameOf(HostPort(rest)) ELSE Null,
     port     |-> IF hasHost THEN PortOf(HostPort(rest)) ELSE Null,
     path     |-> PathOf(protocol,
                         IF hasHost THEN HostnameOf(HostPort(rest)) ELSE Null,
                         IF hasHost THEN SubSeq(rest, HostEnd(rest), Len(rest)) ELSE rest)]

\* url.parse(targetUrl): the fields the handler reads, and whether the call
\* throws
UrlParse(s) ==
    ParseAuthority(ProtocolOf(s),
                   HasHost(ProtocolOf(s), AfterProtocol(s)),
                   AfterSlashes(ProtocolOf(s), AfterProtocol(s)))

\* ------------------------------------------------------------ the inputs
\* req.url samples, as Node's parser hands them to the handler
UrlRoot     == <<"/">>
UrlStar     == <<"*">>
UrlHttp     == <<"/", "h","t","t","p",":","/","/","a","/","x","?","e">>
UrlHttps    == <<"/", "h","t","t","p","s",":","/","/","a",":","8","1">>
UrlUpper    == <<"/", "H","T","T","P",":","/","/","a">>
UrlAuth     == <<"/", "h","t","t","p",":","/","/","u","%","4","1","@","a","/">>
UrlFtp      == <<"/", "f","t","p",":","/","/","a","/","x">>
UrlFile     == <<"/", "f","i","l","e",":","/","/","/","e">>
UrlNoScheme == <<"/", "a","/","x">>
UrlAbsolute == <<"h","t","t","p",":","/","/","a","/">>
UrlBadAuth  == <<"/", "h","t","t","p",":","/","/","u","%","@","a","/">>
UrlBadFtp   == <<"/", "f","t","p",":","/","/","%","e","@","a">>

AllUrls == {UrlRoot, UrlStar, UrlHttp, UrlHttps, UrlUpper, UrlAuth, UrlFtp,
            UrlFile, UrlNoScheme, UrlAbsolute, UrlBadAuth, UrlBadFtp}

\* req.headers samples (Node lower-cases the names)
HostOnly   == ("host" :> "proxy.test")
HostAccept == ("host" :> "proxy.test") @@ ("accept" :> "text/html")
NoHost     == ("accept" :> "text/html") @@ ("cookie" :> "k=v")
AllHeaders == {HostOnly, HostAccept, NoHost}

\* what a target answers with
TargetHeaders == {("content-type" :> "text/html"),
                  ("location" :> "/next") @@ ("connection" :> "close")}
AllStatuses   == {200, 302, 500}
AllChunks     == <<"a", "b", "c", "d">>
Min(a, b)     == IF a <= b THEN a ELSE b
Bodies(n)     == {SubSeq(AllChunks, 1, k) : k \in 0..Min(n, Len(AllChunks))}
ErrorMessages == {"connect ECONNREFUSED", "socket hang up"}

\* ------------------------------------------------------------- the state
VARIABLES
    cfg,        \* the input domains of this run: [slots, urls, methods, headers, statuses]
    crashed,    \* an exception escaped a listener: the process has stopped
    pc,         \* per request: idle, accepted, help, rejected, threw, proxying
    req,        \* the inbound http.IncomingMessage
    res,        \* the inbound http.ServerResponse
    wire,       \* what has been written to the client's connection, in order
    proxyReq,   \* the outbound http.ClientRequest
    proxyRes    \* the outbound response (http.IncomingMessage)

vars == <<cfg, crashed, pc, req, res, wire, proxyReq, proxyRes>>

NoHeaders == [k \in {} |-> ""]

NoReq == [url |-> << >>, method |-> "", headers |-> NoHeaders,
          pending |-> << >>, complete |-> FALSE, destroyed |-> FALSE]

NewRes == [headersSent |-> FALSE, finished |-> FALSE, destroyed |-> FALSE,
           writeHeads |-> 0, lateWrites |-> 0]

NoProxyReq == [created |-> 0, https |-> FALSE, hostname |-> << >>, port |-> << >>,
               path |-> << >>, method |-> "", headers |-> NoHeaders,
               body |-> << >>, ended |-> FALSE, destroyed |-> FALSE, errors |-> 0]

NoProxyRes == [state |-> "none", statusCode |-> 0, headers |-> NoHeaders,
               body |-> << >>, emitted |-> 0]

\* events on the client's connection
WireHead(status, headers) == [t |-> "head", status |-> status, headers |-> headers, data |-> << >>]
WireData(chunk)           == [t |-> "data", status |-> 0, headers |-> NoHeaders, data |-> chunk]
WireEnd               == [t |-> "end", status |-> 0, headers |-> NoHeaders, data |-> << >>]

\* ------------------------------------------------- http.ServerResponse
\* A client response in progress is the pair c = [res, wire] plus threw, set
\* when a call raised.  A destroyed response (the client has gone) accepts
\* the calls and puts nothing on the wire.
Client(r) == [res |-> res[r], wire |-> wire[r], threw |-> FALSE]

\* res.writeHead(status, headers): ERR_HTTP_HEADERS_SENT when called twice
ResWriteHead(c, status, headers) ==
    IF c.res.headersSent
    THEN [c EXCEPT !.res.writeHeads = @ + 1, !.threw = TRUE]
    ELSE [c EXCEPT !.res.headersSent = TRUE,
                   !.res.writeHeads = @ + 1,
                   !.wire = IF c.res.destroyed THEN @ ELSE Append(@, WireHead(status, headers))]

\* res.write(chunk): after end() nothing is written (ERR_STREAM_WRITE_AFTER_END)
ResWrite(c, chunk) ==
    IF c.threw THEN c
    ELSE IF c.res.finished
    THEN [c EXCEPT !.res.lateWrites = @ + 1]
    ELSE [c EXCEPT !.wire = IF c.res.destroyed THEN @ ELSE Append(@, WireData(chunk))]

\* res.end()
ResEnd(c) ==
    IF c.threw THEN c
    ELSE IF c.res.finished
    THEN [c EXCEPT !.res.lateWrites = @ + 1]
    ELSE [c EXCEPT !.res.finished = TRUE,
                   !.wire = IF c.res.destroyed THEN @ ELSE Append(@, WireEnd)]

\* ------------------------------------------------------- requestHandler
HelpPage     == <<"<html>Simple Node.js Web Proxy</html>">>
RejectBody   == <<"Error: Only http or https protocols are supported.">>
ErrorBody(m) == <<"Proxy Error: Could not reach target server. (", m, ")">>
TextHtml     == ("Content-Type" :> "text/html")
TextPlain    == ("Content-Type" :> "text/plain")

HttpProto  == <<"h","t","t","p",":">>
HttpsProto == <<"h","t","t","p","s",":">>

\* line 18: const targetUrl = req.url.slice(1)
TargetUrl(rq) == Slice1(rq.url)

\* line 39: const parsedUrl = url.parse(targetUrl).  url.parse is a pure
\* function of its argument; it is computed once for each target the sample
\* URLs give and looked up from then on.
ParsedTargets == [t \in {Slice1(u) : u \in AllUrls} |-> UrlParse(t)]

ParsedUrl(targetUrl) == ParsedTargets[targetUrl]

\* lines 22-34: the help page
HelpReply(c) == ResEnd(ResWrite(ResWriteHead(c, 200, TextHtml), HelpPage))

\* line 42: the protocols the handler forwards
SupportedProtocol(p) == p = HttpProto \/ p = HttpsProto

\* lines 43-44: the rejection
RejectReply(c) == ResEnd(ResWrite(ResWriteHead(c, 400, TextPlain), RejectBody))

\* a copy of the headers that keeps "host"
KeepHost(h) == h

\* line 61: delete options.headers.host
DeleteHost(h) == [k \in (DOMAIN h) \ {"host"} |-> h[k]]

\* lines 48-61: the options of the outbound request
Options(rq, parsed) ==
    LET isHttps == parsed.protocol = HttpsProto
    IN  [https    |-> isHttps,
         hostname |-> parsed.hostname,
         port     |-> IF parsed.port # Null THEN parsed.port
                      ELSE IF isHttps THEN <<"4","4","3">> ELSE <<"8","0">>,
         path     |-> parsed.path,
         method   |-> rq.method,
         headers  |-> DeleteHost(rq.headers)]

\* a relay that answers 200 whatever the target said
RelayHeadAlwaysOk(c, statusCode, headers) == ResWriteHead(c, 200, headers)

\* line 68: res.writeHead(proxyRes.statusCode, proxyRes.headers)
RelayHead(c, statusCode, headers) == ResWriteHead(c, statusCode, headers)

\* line 71: proxyRes.pipe(res, { end: true }), one 'data' event
PipeWrite(c, chunk) == ResWrite(c, <<chunk>>)

\* a pipe set up with { end: false }
PipeNoEnd(c) == c

\* line 71: proxyRes.pipe(res, { end: true }), the 'end' event
PipeEnd(c) == ResEnd(c)

\* an error listener without its guard
AlwaysReply(rs) == TRUE

\* line 77: if (!res.headersSent)
HeadersNotSent(rs) == ~rs.headersSent

\* an error reply that writes its body and never ends the response
ErrorReplyNoEnd(c, m) == ResWrite(ResWriteHead(c, 500, TextPlain), ErrorBody(m))

\* lines 78-79: the proxy's own error reply
ErrorReply(c, m) == ResEnd(ResWrite(ResWriteHead(c, 500, TextPlain), ErrorBody(m)))

\* --------------------------------------------------------------- actions
\* The transport has parsed a request's head and built req and res.
Accept(r) ==
    /\ ~crashed
    /\ r \in cfg.slots
    /\ pc[r] = "idle"
    /\ \E u \in cfg.urls, m \in cfg.methods, h \in cfg.headers :
         \E b \in (IF m = "POST" THEN Bodies(MaxReqBody) ELSE {<< >>}) :
            req' = [req EXCEPT ![r] = [url |-> u, method |-> m, headers |-> h,
                                       pending |-> b, complete |-> FALSE,
                                       destroyed |-> FALSE]]
    /\ pc' = [pc EXCEPT ![r] = "accepted"]
    /\ UNCHANGED <<cfg, crashed, res, wire, proxyReq, proxyRes>>

\* requestHandler(req, res), lines 14-85, in one turn of the event loop.
Handle(r) ==
    /\ ~crashed
    /\ pc[r] = "accepted"
    /\ LET targetUrl == TargetUrl(req[r])
           parsedUrl == ParsedUrl(targetUrl)
           c         == Client(r)
       IN  IF targetUrl = << >>
           THEN /\ pc' = [pc EXCEPT ![r] = "help"]
                /\ res' = [res EXCEPT ![r] = HelpReply(c).res]
                /\ wire' = [wire EXCEPT ![r] = HelpReply(c).wire]
                /\ UNCHANGED <<crashed, proxyReq>>
           ELSE IF parsedUrl.threw
           THEN \* url.parse raised: nothing catches it
                /\ pc' = [pc EXCEPT ![r] = "threw"]
                /\ crashed' = TRUE
                /\ UNCHANGED <<res, wire, proxyReq>>
           ELSE IF ~SupportedProtocol(parsedUrl.protocol)
           THEN /\ pc' = [pc EXCEPT ![r] = "rejected"]
                /\ res' = [res EXCEPT ![r] = RejectReply(c).res]
                /\ wire' = [wire EXCEPT ![r] = RejectReply(c).wire]
                /\ UNCHANGED <<crashed, proxyReq>>
           ELSE /\ pc' = [pc EXCEPT ![r] = "proxying"]
                /\ proxyReq' = [proxyReq EXCEPT ![r] =
                        Options(req[r], parsedUrl) @@
                        [created |-> proxyReq[r].created + 1, body |-> << >>,
                         ended |-> FALSE, destroyed |-> FALSE, errors |-> 0]]
                /\ UNCHANGED <<crashed, res, wire>>
    /\ UNCHANGED <<cfg, req, proxyRes>>

\* line 84, req.pipe(proxyReq): one chunk of the inbound body goes out.  A
\* destroyed proxyReq refuses the write and the pipe waits for a 'drain'
\* that never comes.
ReqData(r) ==
    /\ ~crashed
    /\ pc[r] = "proxying"
    /\ ~req[r].destroyed /\ req[r].pending # << >>
    /\ ~proxyReq[r].destroyed
    /\ req' = [req EXCEPT ![r].pending = Tail(@)]
    /\ proxyReq' = [proxyReq EXCEPT ![r].body = Append(@, req[r].pending[1])]
    /\ UNCHANGED <<cfg, crashed, pc, res, wire, proxyRes>>

\* line 84, { end: true }: the inbound body's 'end' ends the outbound request.
ReqEnd(r) ==
    /\ ~crashed
    /\ pc[r] = "proxying"
    /\ ~req[r].destroyed /\ req[r].pending = << >> /\ ~req[r].complete
    /\ req' = [req EXCEPT ![r].complete = TRUE]
    /\ proxyReq' = [proxyReq EXCEPT ![r].ended = ~proxyReq[r].destroyed]
    /\ UNCHANGED <<cfg, crashed, pc, res, wire, proxyRes>>

\* lines 66-72: the 'response' callback.  A ClientRequest that has emitted
\* 'error' has destroyed its socket and emits no 'response' afterwards.
OnResponse(r) ==
    /\ ~crashed
    /\ pc[r] = "proxying"
    /\ proxyRes[r].state = "none" /\ ~proxyReq[r].destroyed
    /\ \E s \in cfg.statuses, h \in cfg.theaders, b \in Bodies(MaxBody) :
         LET c == RelayHead(Client(r), s, h)
         IN  /\ res' = [res EXCEPT ![r] = c.res]
             /\ wire' = [wire EXCEPT ![r] = c.wire]
             /\ crashed' = c.threw
             /\ proxyRes' = [proxyRes EXCEPT ![r] =
                    [state |-> IF c.threw THEN "none" ELSE "flowing",
                     statusCode |-> s, headers |-> h, body |-> b, emitted |-> 0]]
    /\ UNCHANGED <<cfg, pc, req, proxyReq>>

\* line 71: a 'data' event of the piped response.  A destroyed res refuses
\* the write, and the pipe pauses proxyRes until a 'drain' that never comes.
ProxyResData(r) ==
    /\ ~crashed
    /\ proxyRes[r].state = "flowing"
    /\ proxyRes[r].emitted < Len(proxyRes[r].body)
    /\ LET c == PipeWrite(Client(r), proxyRes[r].body[proxyRes[r].emitted + 1])
       IN  /\ res' = [res EXCEPT ![r] = c.res]
           /\ wire' = [wire EXCEPT ![r] = c.wire]
    /\ proxyRes' = [proxyRes EXCEPT ![r].emitted = @ + 1,
                                    ![r].state = IF res[r].destroyed THEN "paused" ELSE @]
    /\ UNCHANGED <<cfg, crashed, pc, req, proxyReq>>

\* line 71: the 'end' event of the piped response ends res.
ProxyResEnd(r) ==
    /\ ~crashed
    /\ proxyRes[r].state = "flowing"
    /\ proxyRes[r].emitted = Len(proxyRes[r].body)
    /\ LET c == PipeEnd(Client(r))
       IN  /\ res' = [res EXCEPT ![r] = c.res]
           /\ wire' = [wire EXCEPT ![r] = c.wire]
    /\ proxyRes' = [proxyRes EXCEPT ![r].state = "ended"]
    /\ UNCHANGED <<cfg, crashed, pc, req, proxyReq>>

\* lines 75-81: the 'error' listener.  The outbound socket is destroyed, so
\* a response in flight is aborted: it emits neither 'data' nor 'end' again,
\* and pipe() does not end its destination for a source that never ended.
OnError(r) ==
    /\ ~crashed
    /\ pc[r] = "proxying"
    /\ ~proxyReq[r].destroyed /\ proxyRes[r].state # "ended"
    /\ \E m \in ErrorMessages :
         LET c == IF HeadersNotSent(res[r]) THEN ErrorReply(Client(r), m) ELSE Client(r)
         IN  /\ res' = [res EXCEPT ![r] = c.res]
             /\ wire' = [wire EXCEPT ![r] = c.wire]
             /\ crashed' = c.threw
    /\ proxyReq' = [proxyReq EXCEPT ![r].destroyed = TRUE, ![r].errors = @ + 1]
    /\ proxyRes' = [proxyRes EXCEPT ![r].state = IF @ = "none" THEN @ ELSE "aborted"]
    /\ UNCHANGED <<cfg, pc, req>>

\* The client closes its connection before its response is complete: req
\* and res are destroyed; the 'close' of res unpipes proxyRes, which stays
\* paused.  The handler registers no listener for any of this.
Disconnect(r) ==
    /\ ~crashed
    /\ pc[r] = "proxying"
    /\ ~res[r].destroyed /\ ~res[r].finished
    /\ res' = [res EXCEPT ![r].destroyed = TRUE]
    /\ req' = [req EXCEPT ![r].destroyed = TRUE]
    /\ proxyRes' = [proxyRes EXCEPT ![r].state = IF @ = "flowing" THEN "paused" ELSE @]
    /\ UNCHANGED <<cfg, crashed, pc, wire, proxyReq>>

Next ==
    \E r \in Requests :
        \/ Accept(r)
        \/ Handle(r)
        \/ ReqData(r)
        \/ ReqEnd(r)
        \/ OnResponse(r)
        \/ ProxyResData(r)
        \/ ProxyResEnd(r)
        \/ OnError(r)
        \/ Disconnect(r)

\* -------------------------------------------------------- specifications
InitWith(c) ==
    /\ cfg = c
    /\ crashed = FALSE
    /\ pc = [r \in Requests |-> "idle"]
    /\ req = [r \in Requests |-> NoReq]
    /\ res = [r \in Requests |-> NewRes]
    /\ wire = [r \in Requests |-> << >>]
    /\ proxyReq = [r \in Requests |-> NoProxyReq]
    /\ proxyRes = [r \in Requests |-> NoProxyRes]

\* one request at a time, every sample input
OneCfg == [slots |-> {1}, urls |-> AllUrls, methods |-> {"GET", "POST"},
           headers |-> AllHeaders, statuses |-> AllStatuses, theaders |-> TargetHeaders]

\* every slot in use at once, fewer inputs
ManyCfg == [slots |-> Requests, urls |-> {UrlRoot, UrlFtp, UrlHttp, UrlBadAuth},
            methods |-> {"POST"}, headers |-> {HostAccept}, statuses |-> {200},
            theaders |-> {("content-type" :> "text/html")}]

Init == InitWith(OneCfg)
Spec == Init /\ [][Next]_vars

InitConc == InitWith(ManyCfg)
SpecConc == InitConc /\ [][Next]_vars

\* I/O the runtime keeps delivering: the handler's own turn, the two pipes,
\* and a target that, asked, answers or fails.  Nothing obliges a target to
\* fail after it has answered, nor a client to go away.
TargetAnswers(r) == OnResponse(r) \/ (proxyRes[r].state = "none" /\ OnError(r))

\* Every behaviour ends: a request is accepted once per slot and each of its
\* steps consumes something.  So it is enough, and the same, to ask that
\* the run does not stop while one of these steps can be taken.
Progress ==
    \E r \in Requests :
        \/ Handle(r)
        \/ ReqData(r)
        \/ ReqEnd(r)
        \/ TargetAnswers(r)
        \/ ProxyResData(r)
        \/ ProxyResEnd(r)

Fairness == WF_vars(Progress)

SpecFair == Init /\ [][Next]_vars /\ Fairness

\* --------------------------------------------------- reading the state
Handled(r) == pc[r] \notin {"idle", "accepted"}

\* the response body as it appears on the wire, n chunks of it
RelayedData(body, n) == [i \in 1..n |-> WireData(<<body[i]>>)]

HelpOnWire      == <<WireHead(200, TextHtml), WireData(HelpPage), WireEnd>>
RejectOnWire    == <<WireHead(400, TextPlain), WireData(RejectBody), WireEnd>>
ErrorOnWire(m)  == <<WireHead(500, TextPlain), WireData(ErrorBody(m)), WireEnd>>
ProxiedOnWire(r) ==
    <<WireHead(proxyRes[r].statusCode, proxyRes[r].headers)>>
        \o RelayedData(proxyRes[r].body, Len(proxyRes[r].body)) \o <<WireEnd>>

\* the outbound exchange of r holds no open stream
OutboundClosed(r) ==
    \/ crashed
    \/ proxyReq[r].created = 0
    \/ proxyReq[r].destroyed
    \/ proxyRes[r].state = "ended"

\* ----------------------------------------------------------------- claims

\* C1: a request whose non-empty target has no http/https scheme (none at
\* all, another one, or a target url.parse cannot parse) is answered with
\* 400, text/plain and the fixed body, and no outbound request is created.
C1_NonHttpRejected ==
    \A r \in Requests :
        (/\ Handled(r)
         /\ TargetUrl(req[r]) # << >>
         /\ ParsedUrl(TargetUrl(req[r])).protocol \notin {HttpProto, HttpsProto})
        => (wire[r] = RejectOnWire /\ proxyReq[r].created = 0)

\* C2: an outbound failure before anything was sent to a connected client
\* puts exactly the 500 text/plain reply with the error's message on the
\* wire and ends the response; a failure after the response began writes
\* nothing and leaves the client response as it was.
C2_ErrorReply ==
    [][\A r \in Requests :
         proxyReq'[r].errors > proxyReq[r].errors =>
            IF res[r].headersSent
            THEN wire'[r] = wire[r] /\ res'[r] = res[r] /\ ~crashed'
            ELSE /\ res'[r].finished /\ ~crashed'
                 /\ \/ res[r].destroyed /\ wire'[r] = wire[r]
                    \/ ~res[r].destroyed /\
                       \E m \in ErrorMessages : wire'[r] = wire[r] \o ErrorOnWire(m)]_vars

C2_Witness ==
    \E r \in Requests :
        /\ proxyReq[r].errors = 1 /\ proxyRes[r].state = "none"
        /\ wire[r] = ErrorOnWire("connect ECONNREFUSED")

\* C3: every accepted request whose client stays connected eventually has
\* a complete answer: the proxied response in full, the help page, the 400
\* or the 500 reply, with the client response ended.
Answered(r) ==
    /\ res[r].finished
    /\ \/ wire[r] = HelpOnWire
       \/ wire[r] = RejectOnWire
       \/ \E m \in ErrorMessages : wire[r] = ErrorOnWire(m)
       \/ proxyRes[r].state = "ended" /\ wire[r] = ProxiedOnWire(r)

C3_EveryRequestAnswered ==
    \A r \in Requests :
        [](pc[r] = "accepted" => <>(Answered(r) \/ res[r].destroyed))

\* C4: once the client has disconnected, the outbound request and response
\* of that request are eventually closed.
C4_DisconnectClosesOutbound ==
    \A r \in Requests : [](res[r].destroyed => <>OutboundClosed(r))

\* C5: while a request is being proxied, no step of another request stops
\* the process or touches what this request's client has received.
Local(r) == <<pc[r], req[r], res[r], wire[r], proxyReq[r], proxyRes[r]>>

C5_Isolated ==
    [][\A r, o \in Requests :
         (r # o /\ pc[r] = "proxying" /\ Local(o)' # Local(o))
            => (~crashed' /\ Local(r)' = Local(r))]_vars

\* C6: the target's status line and headers are the first thing on the
\* wire, and the body chunks follow in the order the target sent them: a
\* connected client has every chunk the response has emitted, and once the
\* response has ended, the whole body and the end of the response.
C6_BodyInOrder ==
    \A r \in Requests :
        proxyRes[r].state # "none" =>
            /\ \A i \in 1..Len(wire[r]) : (wire[r][i].t = "head") <=> (i = 1)
            /\ \E n \in 0..proxyRes[r].emitted :
                 SubSeq(wire[r], 2, n + 1) = RelayedData(proxyRes[r].body, n)
                 /\ Len(wire[r]) <= n + 2
            /\ ~res[r].destroyed =>
                 /\ SubSeq(wire[r], 2, proxyRes[r].emitted + 1)
                        = RelayedData(proxyRes[r].body, proxyRes[r].emitted)
                 /\ proxyRes[r].state = "ended" => wire[r] = ProxiedOnWire(r)
                 /\ proxyRes[r].state # "ended" => Len(wire[r]) = proxyRes[r].emitted + 1

C6_Witness ==
    \E r \in Requests :
        /\ proxyRes[r].state = "ended" /\ Len(proxyRes[r].body) >= 2
        /\ ~res[r].destroyed /\ wire[r] = ProxiedOnWire(r)

\* C7: the outbound request has the inbound method and the inbound headers
\* less "host", every other header with its value and none added; no step
\* changes the inbound request's method or headers.
C7_MethodAndHeaders ==
    [][\A r \in Requests :
         /\ proxyReq'[r].created > 0 =>
              /\ proxyReq'[r].method = req'[r].method
              /\ DOMAIN proxyReq'[r].headers = (DOMAIN req'[r].headers) \ {"host"}
              /\ \A k \in DOMAIN proxyReq'[r].headers :
                    proxyReq'[r].headers[k] = req'[r].headers[k]
         /\ pc[r] # "idle" =>
              /\ req'[r].method = req[r].method
              /\ req'[r].headers = req[r].headers]_vars

C7_Witness ==
    \E r \in Requests :
        /\ proxyReq[r].created = 1 /\ proxyReq[r].method = "POST"
        /\ req[r].headers = HostAccept
        /\ proxyReq[r].headers = ("accept" :> "text/html")

\* C8: what is written to the client for a target's response starts with
\* the target's own status code and headers, a 3xx included, and one
\* inbound request creates at most one outbound request.
C8_StatusAndHeaders ==
    \A r \in Requests :
        /\ proxyReq[r].created <= 1
        /\ proxyRes[r].state # "none" =>
              \/ wire[r] = << >> /\ res[r].destroyed
              \/ wire[r] # << >> /\
                 wire[r][1] = WireHead(proxyRes[r].statusCode, proxyRes[r].headers)

C8_Witness ==
    \E r \in Requests :
        /\ proxyRes[r].state = "ended" /\ proxyRes[r].statusCode = 302
        /\ "location" \in DOMAIN proxyRes[r].headers
        /\ wire[r] = ProxiedOnWire(r) /\ proxyReq[r].created = 1

\* C9: a request for "/" (or for nothing at all), whatever its method, gets
\* 200 with text/html, an ended response, and no outbound request.
C9_HelpPage ==
    \A r \in Requests :
        (Handled(r) /\ req[r].url \in {<<"/">>, << >>})
        => /\ wire[r] = HelpOnWire
           /\ res[r].finished
           /\ proxyReq[r].created = 0

C9_Witness ==
    \E r \in Requests :
        /\ Handled(r) /\ req[r].url = <<"/">> /\ req[r].method = "POST"
        /\ wire[r] = HelpOnWire

=============================================================================
